---- MODULE Spec2Model ----
(***************************************************************************)
(* Model of scripts/launch_agent_python.py: the class MyAgent (constructor *)
(* __init__, methods assist and launch) and the entry point main.          *)
(*                                                                         *)
(* The Python process is single-threaded.  Its state is the object heap,   *)
(* the position of the interpreter (pc) with the arguments of the call in  *)
(* progress (frame), the references the caller holds to finished agents,   *)
(* the character stream written to standard output and the exit status.    *)
(* The module is either run as a program (line 24 holds, main runs) or     *)
(* imported by a client that constructs agents and calls their methods.    *)
(*                                                                         *)
(* Texts are sequences of one-character strings, so that the lines of the  *)
(* output are computed from the characters actually written.               *)
(***************************************************************************)
EXTENDS Integers, Sequences, FiniteSets, TLC

VARIABLES mode, pc, frame, heap, agents, stdout, generated, error, exit, ncalls

vars == <<mode, pc, frame, heap, agents, stdout, generated, error, exit, ncalls>>

(* ------------------------------ bounds -------------------------------- *)

\* Agents a client constructs in one process.
MaxAgents == 2
\* Method calls (assist, launch) a client makes in one process.
MaxCalls == 2

(* ------------------------------ inputs -------------------------------- *)

NL == "\n"
\* A code point that the encoding of standard output cannot encode.
Surrogate == "\\ud800"

\* Names given to the constructor; main uses "MyAgent" (line 21).
Names == {"MyAgent", "B"}

\* Query texts given to assist: empty, plain, with a line break inside,
\* ending in a line break, and one that standard output cannot encode.
Queries == { <<>>, <<"h", "i">>, <<"a", NL, "b">>, <<NL>>, <<Surrogate>> }

\* The clock readings (milliseconds) and random draws the identifier
\* generator can see.  The clock is the wall clock: it may repeat.
Timestamps == {0, 1}
Randomness == {0, 1}
ULIDs == Timestamps \X Randomness

(* --------------------------- text literals ---------------------------- *)

\* "Agent launched" (line 18)
AgentLaunched ==
    <<"A","g","e","n","t"," ","l","a","u","n","c","h","e","d">>

\* "Assisting with query: " (line 15)
AssistingWithQuery ==
    <<"A","s","s","i","s","t","i","n","g"," ","w","i","t","h"," ",
      "q","u","e","r","y",":"," ">>

(* ---------------------- the identifier generator ---------------------- *)

Crockford ==
    <<"0","1","2","3","4","5","6","7","8","9","A","B","C","D","E","F",
      "G","H","J","K","M","N","P","Q","R","S","T","V","W","X","Y","Z">>

RECURSIVE Base32(_, _)
\* n written in Crockford base 32 on w characters, most significant first.
Base32(n, w) ==
    IF w = 0 THEN <<>>
    ELSE Append(Base32(n \div 32, w - 1), Crockford[(n % 32) + 1])

\* The .str of ulid.new().str (line 11): a ULID is a 48-bit timestamp
\* followed by 80 random bits; its string form is 10 + 16 base-32
\* characters.
ulid_str(u) == Base32(u[1], 10) \o Base32(u[2], 16)

Range(s) == { s[i] : i \in 1..Len(s) }

\* The ulid.new() of line 11: the values it can return next, drawn being
\* the sequence of the values it has returned so far.  The generator is an
\* external collaborator; that it never returns a value twice is its
\* contract (for a ULID it fails only if two calls in one millisecond draw
\* the same 80 random bits), taken here as given.
ulid_new(drawn) == ULIDs \ Range(drawn)

(* ------------------------------ the heap ------------------------------ *)

\* A reference is an index into heap; 0 is no reference.  An object is a
\* record: its kind and the attributes assigned so far.
Ref(h) == Len(h) + 1

HasAttr(obj, a) == a \in DOMAIN obj

\* self.<attribute> = value, for each field of attrs
SetAttr(h, self, attrs) == [h EXCEPT ![self] = attrs @@ @]

NoFrame == [self |-> 0, name |-> "", id |-> <<>>, query |-> <<>>]

(* ------------------------- MyAgent.__init__ --------------------------- *)

\* MyAgent(name): the instance exists before __init__ runs (line 8).
new_MyAgent(h) == Append(h, [kind |-> "MyAgent"])

\* super().__init__(name) (line 9): the base agent keeps the name.
super_init(h, self, name) == SetAttr(h, self, [name |-> name])

\* self.hook = DefaultHook([]) (line 10)
init_hook(h, self) ==
    SetAttr(Append(h, [kind |-> "DefaultHook", registrations |-> <<>>]),
            self, [hook |-> Ref(h)])

\* Variant: the Identity is named by a literal instead of the parameter.
init_source_fixed_name(h, self, id, name) ==
    SetAttr(Append(h, [kind |-> "Identity", id |-> id, name |-> "MyAgent"]),
            self, [source |-> Ref(h)])

\* Variant: the Identity takes the name as its id.
init_source_id_from_name(h, self, id, name) ==
    SetAttr(Append(h, [kind |-> "Identity", id |-> <<name>>, name |-> name]),
            self, [source |-> Ref(h)])

\* self.source = Identity(id=<generated>, name=name) (line 11)
init_source(h, self, id, name) ==
    SetAttr(Append(h, [kind |-> "Identity", id |-> id, name |-> name]),
            self, [source |-> Ref(h)])

\* Variant: the two arguments of the response handler are exchanged.
init_response_handler_swapped(h, self) ==
    SetAttr(Append(h, [kind |-> "DefaultResponseHandler",
                       source |-> h[self].hook, hook |-> h[self].source]),
            self, [response_handler |-> Ref(h)])

\* Variant: the response handler receives a copy of the Identity.
init_response_handler_copy(h, self) ==
    SetAttr(Append(Append(h, h[h[self].source]),
                   [kind |-> "DefaultResponseHandler",
                    source |-> Ref(h), hook |-> h[self].hook]),
            self, [response_handler |-> Ref(h) + 1])

\* self.response_handler = DefaultResponseHandler(self.source, self.hook)
\* (line 12)
init_response_handler(h, self) ==
    SetAttr(Append(h, [kind |-> "DefaultResponseHandler",
                       source |-> h[self].source, hook |-> h[self].hook]),
            self, [response_handler |-> Ref(h)])

\* The steps of __init__ in program order.
InitSteps == <<"init_super", "init_hook", "init_ulid", "init_source",
               "init_handler">>

\* Variant: __init__ swallows the exception and goes on with the next step.
on_raise_swallow(p) ==
    IF p < Len(InitSteps) THEN InitSteps[p + 1] ELSE "failed"

\* Where control goes when the step at position p raises: no handler in
\* __init__ (lines 8-12) nor in main (lines 20-22), so the process fails.
on_raise(p) == "failed"

(* ------------------------------ output -------------------------------- *)

Encodable(text) == \A i \in 1..Len(text) : text[i] # Surrogate

\* Variant: print(text, end="").
print_no_newline(out, text) == out \o text

\* print(text): the text, then a line break, appended to standard output.
print_to(out, text) == out \o text \o <<NL>>

\* Variant: the literal without the interpolated query.
assist_message_no_query(query) == AssistingWithQuery

\* f"Assisting with query: {query}" (line 15)
assist_message(query) == AssistingWithQuery \o query

\* Variant: the literal misspelt.
launch_message_lower(h, self) ==
    <<"a","g","e","n","t"," ","l","a","u","n","c","h","e","d">>

\* Variant: the message names the agent's identity.
launch_message_with_id(h, self) ==
    AgentLaunched \o <<" ">> \o h[h[self].source].id

\* the text launch prints (line 18); it reads nothing of the agent
launch_message(h, self) == AgentLaunched

\* MyAgent.assist (lines 14-15): the heap and the output after the call,
\* and whether it raised.  print encodes the whole text before it writes
\* any of it; a text that cannot be encoded raises and writes nothing.
assist_body(h, out, self, query) ==
    IF Encodable(assist_message(query))
      THEN [heap |-> h, stdout |-> print_to(out, assist_message(query)),
            raised |-> FALSE]
      ELSE [heap |-> h, stdout |-> out, raised |-> TRUE]

\* Variant: launch also registers the agent with its hook.
launch_body_registers(h, out, self) ==
    [heap |-> [h EXCEPT ![h[self].hook].registrations = Append(@, self)],
     stdout |-> print_to(out, AgentLaunched)]

\* MyAgent.launch (lines 17-18): the heap and the output after the call.
launch_body(h, out, self) ==
    [heap |-> h, stdout |-> print_to(out, launch_message(h, self))]

(* ------------------------------ actions ------------------------------- *)

Init ==
    /\ mode \in {"script", "import"}
    /\ pc = IF mode = "script" THEN "main" ELSE "idle"
    /\ frame = NoFrame
    /\ heap = <<>>
    /\ agents = <<>>
    /\ stdout = <<>>
    /\ generated = <<>>
    /\ error = ""
    /\ exit = -1
    /\ ncalls = 0

\* Entering MyAgent(name): allocate the instance and start __init__.
Construct(name) ==
    /\ heap' = new_MyAgent(heap)
    /\ frame' = [NoFrame EXCEPT !.self = Ref(heap), !.name = name]
    /\ pc' = "init_super"
    /\ UNCHANGED <<mode, agents, stdout, generated, error, exit, ncalls>>

\* main, line 21: agent = MyAgent("MyAgent")
main ==
    /\ pc = "main"
    /\ Construct("MyAgent")

\* A client of the imported module constructs an agent.
client_new ==
    /\ pc = "idle"
    /\ Len(agents) < MaxAgents
    /\ \E name \in Names : Construct(name)

\* line 9
step_super ==
    /\ pc = "init_super"
    /\ heap' = super_init(heap, frame.self, frame.name)
    /\ pc' = "init_hook"
    /\ UNCHANGED <<mode, frame, agents, stdout, generated, error, exit, ncalls>>

\* line 10
step_hook ==
    /\ pc = "init_hook"
    /\ heap' = init_hook(heap, frame.self)
    /\ pc' = "init_ulid"
    /\ UNCHANGED <<mode, frame, agents, stdout, generated, error, exit, ncalls>>

\* line 11, the argument ulid.new().str
step_ulid ==
    /\ pc = "init_ulid"
    /\ \E u \in ulid_new(generated) :
          /\ generated' = Append(generated, u)
          /\ frame' = [frame EXCEPT !.id = ulid_str(u)]
    /\ pc' = "init_source"
    /\ UNCHANGED <<mode, heap, agents, stdout, error, exit, ncalls>>

\* line 11, Identity(...) and the assignment to self.source
step_source ==
    /\ pc = "init_source"
    /\ heap' = init_source(heap, frame.self, frame.id, frame.name)
    /\ pc' = "init_handler"
    /\ UNCHANGED <<mode, frame, agents, stdout, generated, error, exit, ncalls>>

\* line 12, then the return of the constructor to its caller: main goes on
\* to agent.launch() (line 22), a client keeps the agent.
step_handler ==
    /\ pc = "init_handler"
    /\ heap' = init_response_handler(heap, frame.self)
    /\ agents' = Append(agents, frame.self)
    /\ IF mode = "script"
         THEN /\ pc' = "launch"
              /\ frame' = [NoFrame EXCEPT !.self = frame.self]
         ELSE /\ pc' = "idle"
              /\ frame' = NoFrame
    /\ UNCHANGED <<mode, stdout, generated, error, exit, ncalls>>

\* A step of __init__ raises (the generator or a collaborator's constructor
\* fails): nothing of the step takes effect and the exception propagates.
raise ==
    /\ \E p \in 1..Len(InitSteps) :
          /\ pc = InitSteps[p]
          /\ error' = InitSteps[p]
          /\ pc' = on_raise(p)
    /\ exit' = IF pc' = "failed" THEN 1 ELSE exit
    /\ UNCHANGED <<mode, frame, heap, agents, stdout, generated, ncalls>>

\* A client calls agent.launch().
client_launch ==
    /\ pc = "idle"
    /\ ncalls < MaxCalls
    /\ \E i \in 1..Len(agents) :
          frame' = [NoFrame EXCEPT !.self = agents[i]]
    /\ pc' = "launch"
    /\ ncalls' = ncalls + 1
    /\ UNCHANGED <<mode, heap, agents, stdout, generated, error, exit>>

\* A client calls agent.assist(query).
client_assist ==
    /\ pc = "idle"
    /\ ncalls < MaxCalls
    /\ \E i \in 1..Len(agents), q \in Queries :
          frame' = [NoFrame EXCEPT !.self = agents[i], !.query = q]
    /\ pc' = "assist"
    /\ ncalls' = ncalls + 1
    /\ UNCHANGED <<mode, heap, agents, stdout, generated, error, exit>>

\* MyAgent.launch, line 18; in main it is the last statement (line 22), and
\* the process then exits with status 0.
launch ==
    /\ pc = "launch"
    /\ heap' = launch_body(heap, stdout, frame.self).heap
    /\ stdout' = launch_body(heap, stdout, frame.self).stdout
    /\ frame' = NoFrame
    /\ IF mode = "script"
         THEN pc' = "done" /\ exit' = 0
         ELSE pc' = "idle" /\ exit' = exit
    /\ UNCHANGED <<mode, agents, generated, error, ncalls>>

\* MyAgent.assist, lines 14-15, called by a client.  An exception of the
\* body reaches the client, which does not handle it.
assist ==
    /\ pc = "assist"
    /\ LET r == assist_body(heap, stdout, frame.self, frame.query) IN
          /\ heap' = r.heap
          /\ stdout' = r.stdout
          /\ IF r.raised
               THEN /\ pc' = "failed"
                    /\ error' = "assist"
                    /\ exit' = 1
                    /\ frame' = frame
               ELSE /\ pc' = "idle"
                    /\ frame' = NoFrame
                    /\ UNCHANGED <<error, exit>>
    /\ UNCHANGED <<mode, agents, generated, ncalls>>

\* The client's program ends.
client_exit ==
    /\ pc = "idle"
    /\ pc' = "done"
    /\ exit' = 0
    /\ UNCHANGED <<mode, frame, heap, agents, stdout, generated, error, ncalls>>

Next ==
    \/ main
    \/ client_new
    \/ step_super
    \/ step_hook
    \/ step_ulid
    \/ step_source
    \/ step_handler
    \/ raise
    \/ client_launch
    \/ client_assist
    \/ launch
    \/ assist
    \/ client_exit

Spec == Init /\ [][Next]_vars

\* The interpreter always takes the next step of a running program.
FairSpec == Spec /\ WF_vars(Next)

(* ------------------------ notions of the claims ----------------------- *)

RECURSIVE SplitLines(_, _, _)
SplitLines(s, cur, acc) ==
    IF s = <<>> THEN (IF cur = <<>> THEN acc ELSE Append(acc, cur))
    ELSE IF Head(s) = NL THEN SplitLines(Tail(s), <<>>, Append(acc, cur))
    ELSE SplitLines(Tail(s), Append(cur, Head(s)), acc)

\* The lines of an output stream, in order, without their line breaks.
Lines(s) == SplitLines(s, <<>>, <<>>)

\* The number of line breaks in a text.
Breaks(s) == Cardinality({ i \in 1..Len(s) : s[i] = NL })

\* The objects of a kind.
Objects(kind) == { o \in 1..Len(heap) : heap[o].kind = kind }

\* The attributes that hold references.
RefAttrs == {"hook", "source", "response_handler"}

\* The objects that hold a reference to r.
Holders(r) ==
    { o \in 1..Len(heap) :
        \E f \in (DOMAIN heap[o]) \cap RefAttrs : heap[o][f] = r }

\* The id of the Identity of agent a.
IdOf(a) == heap[heap[a].source].id

\* The process has ended.
Terminal == pc \in {"done", "failed"}

\* A step of a method call: the client enters assist or launch, or the
\* body of assist or launch runs.
CallStep ==
    \/ pc \in {"assist", "launch"}
    \/ pc = "idle" /\ pc' \in {"assist", "launch"}

(* -------------------------------- C1 ---------------------------------- *)

\* C1, as stated: a successful run of the script exits with status 0 and
\* its output has exactly two lines.
C1_TwoLines ==
    (mode = "script" /\ pc = "done") =>
        (exit = 0 /\ Len(Lines(stdout)) = 2)

\* C1, amended: a successful run of the script exits with status 0 and its
\* output has exactly one line, "Agent launched".
C1_OneLine ==
    (mode = "script" /\ pc = "done") =>
        (exit = 0 /\ Lines(stdout) = <<AgentLaunched>>)

C1_Witness == mode = "script" /\ pc = "done" /\ exit = 0 /\ stdout # <<>>

(* -------------------------------- C2 ---------------------------------- *)

\* C2: every execution of launch appends exactly one line to the output,
\* the line "Agent launched", whatever the agent and whatever was written
\* before; so k calls contribute k such lines.
C2_LaunchLine ==
    [][pc = "launch" =>
          /\ stdout' = stdout \o AgentLaunched \o <<NL>>
          /\ Lines(stdout') = Append(Lines(stdout), AgentLaunched)]_vars

C2_Witness ==
    /\ pc = "idle"
    /\ Len(agents) = 2
    /\ heap[agents[1]].name # heap[agents[2]].name
    /\ Lines(stdout) = <<AgentLaunched, AgentLaunched>>

(* -------------------------------- C3 ---------------------------------- *)

\* C3, as stated: for every query, assist returns normally and appends
\* exactly one line, "Assisting with query: " followed by the query.
C3_OneLine ==
    [][pc = "assist" =>
          /\ pc' = "idle"
          /\ Lines(stdout') =
                Append(Lines(stdout), AssistingWithQuery \o frame.query)]_vars

\* C3, amended: for every query the output can encode, assist returns
\* normally and appends "Assisting with query: ", the query and a line
\* break; that is one line more than the query has line breaks, and exactly
\* the one line "Assisting with query: " + query when it has none (the
\* empty query included).  For a query the output cannot encode, assist
\* raises and writes nothing.
C3_Assist ==
    [][pc = "assist" =>
          IF Encodable(frame.query)
            THEN /\ pc' = "idle"
                 /\ stdout' = stdout \o AssistingWithQuery \o frame.query
                                     \o <<NL>>
                 /\ Len(Lines(stdout')) =
                       Len(Lines(stdout)) + 1 + Breaks(frame.query)
                 /\ Breaks(frame.query) = 0 =>
                       Lines(stdout') =
                          Append(Lines(stdout),
                                 AssistingWithQuery \o frame.query)
            ELSE /\ pc' = "failed"
                 /\ stdout' = stdout]_vars

C3_Witness ==
    /\ pc = "idle"
    /\ Lines(stdout) = <<AssistingWithQuery,
                         AssistingWithQuery \o <<"h", "i">> >>

(* -------------------------------- C4 ---------------------------------- *)

\* C4: the Identity of an agent constructed with name N has name N, the
\* name the base agent was given, and its id is a non-empty string that the
\* identifier generator returned; during the construction both are the
\* values of the call in progress.
C4_Identity ==
    /\ \A a \in Objects("MyAgent") :
          HasAttr(heap[a], "source") =>
             /\ heap[heap[a].source].kind = "Identity"
             /\ heap[heap[a].source].name = heap[a].name
             /\ IdOf(a) # <<>>
             /\ \E u \in Range(generated) : IdOf(a) = ulid_str(u)
    /\ pc \in Range(InitSteps) =>
          /\ HasAttr(heap[frame.self], "name") =>
                heap[frame.self].name = frame.name
          /\ HasAttr(heap[frame.self], "source") =>
                /\ heap[heap[frame.self].source].name = frame.name
                /\ IdOf(frame.self) = frame.id
                /\ frame.id = ulid_str(generated[Len(generated)])
    /\ mode = "script" =>
          \A i \in 1..Len(agents) : heap[agents[i]].name = "MyAgent"

C4_Witness ==
    /\ Len(agents) = 2
    /\ heap[heap[agents[1]].source].name = "B"
    /\ heap[heap[agents[2]].source].name = "MyAgent"

(* -------------------------------- C5 ---------------------------------- *)

\* C5: the ids of the agents constructed so far are pairwise distinct, and
\* every construction that reached the generator drew exactly one id.
C5_DistinctIds ==
    /\ \A i, j \in 1..Len(agents) :
          i # j => IdOf(agents[i]) # IdOf(agents[j])
    /\ Len(generated) =
          Cardinality(Objects("Identity"))
          + (IF pc = "init_source" \/ error = "init_source" THEN 1 ELSE 0)

C5_Witness ==
    /\ Len(agents) = 2
    /\ heap[agents[1]].name = heap[agents[2]].name
    /\ generated[1][1] = generated[2][1]

(* -------------------------------- C6 ---------------------------------- *)

\* The attributes an agent has when step p of __init__ is about to run.
AttrsBefore(p) ==
    {"kind"} \cup (IF p > 1 THEN {"name"} ELSE {})
             \cup (IF p > 2 THEN {"hook"} ELSE {})
             \cup (IF p > 4 THEN {"source"} ELSE {})

\* C6: when a step of the construction fails, the process ends at once in
\* a failed state with no recovery: the later steps have not run (their
\* attributes and objects do not exist), the caller never received the
\* agent, and in the script launch has not run and nothing was written.
C6_Propagates ==
    \A p \in 1..Len(InitSteps) :
       error = InitSteps[p] =>
          /\ pc = "failed"
          /\ exit = 1
          /\ ~ ENABLED Next
          /\ DOMAIN heap[frame.self] = AttrsBefore(p)
          /\ Len(heap) = frame.self + Cardinality(AttrsBefore(p) \cap RefAttrs)
          /\ \A i \in 1..Len(agents) : agents[i] # frame.self
          /\ mode = "script" => (stdout = <<>> /\ agents = <<>>)

C6_Witness ==
    /\ mode = "script"
    /\ error = "init_handler"
    /\ pc = "failed"

(* -------------------------------- C7 ---------------------------------- *)

\* C7: every run of the script ends, in success or in failure, and every
\* successful run has written the same output, whatever id was generated.
C7_Terminates ==
    /\ (mode = "script") ~> Terminal
    /\ [](mode = "script" /\ pc = "done" =>
             stdout = AgentLaunched \o <<NL>>)

C7_Witness ==
    /\ mode = "script"
    /\ pc = "done"
    /\ IdOf(agents[1]) = ulid_str(<<1, 1>>)

(* -------------------------------- C8 ---------------------------------- *)

\* C8: the response handler of an agent holds the very Identity and Hook
\* the agent holds, the hook has no registrations, and both existed before
\* the response handler.
C8_Wiring ==
    \A a \in Objects("MyAgent") :
       HasAttr(heap[a], "response_handler") =>
          LET rh == heap[a].response_handler IN
             /\ heap[rh].kind = "DefaultResponseHandler"
             /\ heap[rh].source = heap[a].source
             /\ heap[rh].hook = heap[a].hook
             /\ heap[heap[rh].source].kind = "Identity"
             /\ heap[heap[rh].hook].kind = "DefaultHook"
             /\ heap[heap[rh].hook].registrations = <<>>
             /\ heap[a].hook < rh
             /\ heap[a].source < rh

C8_Witness ==
    /\ Len(agents) = 2
    /\ heap[agents[1]].response_handler # heap[agents[2]].response_handler
    /\ pc = "done"

(* -------------------------------- C9 ---------------------------------- *)

\* C9, as stated: after construction, the only holder of an agent's
\* Identity is the agent's response handler.
C9_ExclusiveOwner ==
    \A i \in 1..Len(agents) :
       Holders(heap[agents[i]].source) = {heap[agents[i]].response_handler}

\* C9, amended: after construction, the Identity of an agent has exactly
\* two holders, the agent itself (its attribute source) and the agent's
\* response handler.
C9_SharedOwner ==
    \A i \in 1..Len(agents) :
       Holders(heap[agents[i]].source) =
          {agents[i], heap[agents[i]].response_handler}

C9_Witness ==
    /\ Len(agents) = 1
    /\ Cardinality(Holders(heap[agents[1]].source)) = 2

(* -------------------------------- C10 --------------------------------- *)

\* C10: a call of assist or launch changes no object (no agent's name,
\* identity, hook or response handler), constructs nothing and draws no
\* id; its only effect is on the output.
C10_Frame ==
    [][CallStep =>
          /\ heap' = heap
          /\ agents' = agents
          /\ generated' = generated]_vars

C10_Witness ==
    /\ pc = "idle"
    /\ Len(agents) = 1
    /\ stdout = AssistingWithQuery \o <<"h", "i", NL>>
                   \o AgentLaunched \o <<NL>>

====
